---- MODULE Spec2Model ----
(***************************************************************************)
(* EnergyHub (src/EnergyHub.py): the construction of the Pyomo energy hub  *)
(* model by EnergyHub.__init__ / EnergyHub.createModel, followed by        *)
(* EnergyHub.solve.  A ConcreteModel constructs every component at the     *)
(* moment it is attached, so createModel is a sequence of steps, each of   *)
(* which either extends the model m or raises and stops the construction.  *)
(*                                                                         *)
(* The model m is kept as what a MILP is: index sets, parameters, decision *)
(* variables with their domains, and constraint rows.  A row is the        *)
(* relational expression a constraint rule returns; an assignment of the   *)
(* decision variables is feasible when it lies in every variable's domain  *)
(* and satisfies every row of m.  Real-valued variables are sampled on the *)
(* integer grid 0..MaxVal.                                                 *)
(***************************************************************************)
EXTENDS Integers, Sequences, FiniteSets, TLC

VARIABLES inp, num_of_pfp, m, pc, err, cand

vars == <<inp, num_of_pfp, m, pc, err, cand>>

(* Largest value a continuous decision variable takes in a candidate. *)
MaxVal == 2

(* The argument of the constructor call of the script entry point. *)
NumOfParetoPoints == 10

(* Universe the data provider draws its index sets from. *)
Carriers == {"grid", "pv"}
Services == {"elec", "heat"}
Steps == {1, 2}

None == "None"

Max(a, b) == IF a >= b THEN a ELSE b

---------------------------------------------------------------------------
(* Python integer operators used by the source. *)

(* a ^ b on non-negative ints: bitwise exclusive or. *)
RECURSIVE BitXor(_, _)
BitXor(a, b) ==
    IF a = 0 THEN b
    ELSE IF b = 0 THEN a
    ELSE (((a % 2) + (b % 2)) % 2) + (2 * BitXor(a \div 2, b \div 2))

---------------------------------------------------------------------------
(* The input data module (self.inp): every attribute createModel reads. *)

DataShapes ==
    { s \in (SUBSET Steps) \X (SUBSET Services) \X (SUBSET Carriers) :
        /\ 1 \in s[1]
        /\ "elec" \in s[2]
        /\ Cardinality(s[1]) * Cardinality(s[2]) * Max(1, Cardinality(s[3])) <= 2 }

InputData(T, O, I, S, D, C) ==
    [ Time |-> T, First_hour |-> {1}, Inputs |-> I, Solar_inputs |-> S,
      Inputs_wo_grid |-> {"pv"}, Dispatchable_Tech |-> D, CHP_Tech |-> C,
      Outputs |-> O,
      Loads |-> [x \in T \X O |-> IF x = <<1, "elec">> THEN 2 ELSE 1],
      Number_of_days |-> [t \in T |-> 1],
      Cmatrix |-> [x \in O \X I |-> IF x = <<"elec", "grid">> THEN 2 ELSE 1],
      Storage_max_charge |-> [o \in O |-> 1],
      Storage_max_discharge |-> [o \in O |-> 1],
      Storage_standing_losses |-> [o \in O |-> 0],
      Storage_charging_eff |-> [o \in O |-> 1],
      Storage_discharging_eff |-> [o \in O |-> 1],
      Storage_max_cap |-> [o \in O |-> IF o = "elec" THEN 1 ELSE 0],
      Lifetime_tech |-> [i \in I |-> 20],
      Lifetime_stor |-> [o \in O |-> 20],
      Network_efficiency |-> [o \in O |-> 1],
      Network_length |-> [o \in O |-> 0],
      Network_lifetime |-> 40,
      Operating_costs |-> [i \in I |-> IF i = "grid" THEN 2 ELSE 0],
      Linear_inv_costs |-> [i \in I |-> 0],
      Fixed_inv_costs |-> [i \in I |-> 0],
      Linear_stor_costs |-> [o \in O |-> 0],
      Fixed_stor_costs |-> [o \in O |-> 0],
      Net_inv_cost_per_m |-> 0,
      FiT |-> [o \in O |-> 0],
      Interest_rate |-> 0,
      Roof_area |-> 2,
      P_solar |-> [x \in T \X S |-> IF x[1] = 1 THEN 2 ELSE 1] ]

---------------------------------------------------------------------------
(* Model sets, lines 33-40: name and the superset given by within=. *)

Unrestricted == "Unrestricted"

SetDecls ==
    << [name |-> "Time",              within |-> Unrestricted],
       [name |-> "First_hour",        within |-> "Time"],
       [name |-> "Inputs",            within |-> Unrestricted],
       [name |-> "Solar_inputs",      within |-> "Inputs"],
       [name |-> "Inputs_wo_grid",    within |-> Unrestricted],
       [name |-> "Dispatchable_Tech", within |-> "Inputs"],
       [name |-> "CHP_Tech",          within |-> "Inputs"],
       [name |-> "Outputs",           within |-> Unrestricted] >>

(* Mutation: CHP_Tech is declared like Inputs_wo_grid, without within=. *)
SetRejected_ChpUnchecked(d) ==
    /\ d.within # Unrestricted
    /\ d.name # "CHP_Tech"
    /\ ~ (inp[d.name] \subseteq inp[d.within])

(* pe.Set(initialize = ..., within = ...) raises when an element of the
   initial data is not in the superset. *)
SetRejected(d) ==
    /\ d.within # Unrestricted
    /\ ~ (inp[d.name] \subseteq inp[d.within])

(* Position of the first declaration that raises, 0 when none does. *)
FirstRejected ==
    LET bad == { i \in 1..Len(SetDecls) : SetRejected(SetDecls[i]) }
    IN  IF bad = {} THEN 0 ELSE CHOOSE i \in bad : \A j \in bad : i <= j

DeclaredSets(n) == { SetDecls[i].name : i \in 1..n }

---------------------------------------------------------------------------
(* Model parameters, lines 48-88. *)

InitialisedParams ==
    { "Loads", "Number_of_days", "Cmatrix", "Storage_max_charge",
      "Storage_max_discharge", "Storage_standing_losses", "Storage_charging_eff",
      "Storage_discharging_eff", "Storage_max_cap", "Lifetime_tech",
      "Lifetime_stor", "Network_efficiency", "Network_length", "Network_lifetime",
      "Operating_costs", "Linear_inv_costs", "Fixed_inv_costs", "Linear_stor_costs",
      "Fixed_stor_costs", "Net_inv_cost_per_m", "FiT", "Interest_rate",
      "Roof_area", "P_solar" }

(* Declared with neither initialize nor default: they hold no value. *)
ValuelessParams == { "CRF_tech", "CRF_stor", "CRF_network", "Carbon_factors" }

(* pe.Param(default = 10^5): in Python ^ is exclusive or. *)
BigMDefault == BitXor(10, 5)

(* What reading a parameter that holds no value yields: no number (Pyomo
   raises on the access). *)
NoValue == "NoValue"

(* The value of a parameter of m; parameters are immutable once declared.
   A parameter declared with initialize= holds the data module's attribute, one
   declared with default= holds the default, the others hold nothing. *)
Param(name) ==
    IF name \in DOMAIN m.defaults THEN m.defaults[name]
    ELSE IF name \in InitialisedParams THEN inp[name]
    ELSE NoValue

---------------------------------------------------------------------------
(* Model variables, lines 96-115: name, index sets and domain (within=). *)

VarDecls ==
    << [name |-> "P",                  over |-> <<"Time", "Inputs">>,  within |-> "NonNegativeReals"],
       [name |-> "P_export",           over |-> <<"Time", "Outputs">>, within |-> "NonNegativeReals"],
       [name |-> "y",                  over |-> <<"Inputs">>,          within |-> "Binary"],
       [name |-> "Capacity",           over |-> <<"Inputs">>,          within |-> "NonNegativeReals"],
       [name |-> "Qin",                over |-> <<"Time", "Outputs">>, within |-> "NonNegativeReals"],
       [name |-> "Qout",               over |-> <<"Time", "Outputs">>, within |-> "NonNegativeReals"],
       [name |-> "E",                  over |-> <<"Time", "Outputs">>, within |-> "NonNegativeReals"],
       [name |-> "y_stor",             over |-> <<"Outputs">>,         within |-> "NonNegativeReals"],
       [name |-> "Storage_cap",        over |-> <<"Outputs">>,         within |-> "NonNegativeReals"],
       [name |-> "Operating_cost",     over |-> <<>>,                  within |-> "NonNegativeReals"],
       [name |-> "Income_via_exports", over |-> <<>>,                  within |-> "NonNegativeReals"],
       [name |-> "investment_cost",    over |-> <<>>,                  within |-> "NonNegativeReals"],
       [name |-> "Total_cost",         over |-> <<>>,                  within |-> "NonNegativeReals"],
       [name |-> "Total_carbon",       over |-> <<>>,                  within |-> "NonNegativeReals"] >>

(* One decision variable: a component name and its index (padded with "-"). *)
Var2(name, i, j) == <<name, i, j>>
Var1(name, i) == <<name, i, "-">>
Var0(name) == <<name, "-", "-">>

(* The variables a declaration creates, one per element of its index set. *)
VarKeys(d) ==
    IF Len(d.over) = 2
    THEN { Var2(d.name, i, j) : i \in m.sets[d.over[1]], j \in m.sets[d.over[2]] }
    ELSE IF Len(d.over) = 1
    THEN { Var1(d.name, i) : i \in m.sets[d.over[1]] }
    ELSE { Var0(d.name) }

AllVarKeys == UNION { VarKeys(VarDecls[i]) : i \in 1..Len(VarDecls) }

DeclOf(k) == CHOOSE i \in 1..Len(VarDecls) : VarDecls[i].name = k[1]

(* The values of a Pyomo domain on the sampling grid. *)
DomainValues(dom) == IF dom = "Binary" THEN {0, 1} ELSE 0..MaxVal

---------------------------------------------------------------------------
(* Linear expressions and the relational expressions the rules build. *)

RECURSIVE SetToSeq(_)
SetToSeq(S) ==
    IF S = {} THEN <<>>
    ELSE LET x == CHOOSE x \in S : TRUE IN <<x>> \o SetToSeq(S \ {x})

(* coefficient * variable *)
Term(c, k) == <<c, k>>

(* sum(terms) + const *)
Lin(terms, const) == [terms |-> terms, const |-> const]

RECURSIVE SumTerms(_, _, _)
SumTerms(terms, a, n) ==
    IF n = 0 THEN 0
    ELSE (terms[n][1] * a[terms[n][2]]) + SumTerms(terms, a, n - 1)

Eval(e, a) == SumTerms(e.terms, a, Len(e.terms)) + e.const

(* An assignment satisfies a row. *)
Satisfies(a, row) ==
    IF row.rel = "=="
    THEN Eval(row.lhs, a) = Eval(row.rhs, a)
    ELSE Eval(row.lhs, a) <= Eval(row.rhs, a)

Expr(lhs, rel, rhs) == [ret |-> "expr", lhs |-> lhs, rel |-> rel, rhs |-> rhs]

---------------------------------------------------------------------------
(* Constraint rules, lines 122-135. *)

(* Mutation: the balance is written as an inequality, leaving slack. *)
Load_balance_rule_Slack(t, out) ==
    Expr(Lin([n \in 1..Cardinality(m.sets["Inputs"]) |->
                 LET i == SetToSeq(m.sets["Inputs"])[n]
                 IN  Term(Param("Cmatrix")[out, i], Var2("P", t, i))]
             \o << Term(1, Var2("Qout", t, out)), Term(-1, Var2("Qin", t, out)) >>, 0),
         "<=",
         Lin(<< Term(1, Var2("P_export", t, out)) >>, Param("Loads")[t, out]))

(* sum(P[t,inp] * Cmatrix[out,inp] for inp in Inputs) + Qout[t,out] - Qin[t,out]
     == Loads[t,out] + P_export[t,out] *)
Load_balance_rule(t, out) ==
    Expr(Lin([n \in 1..Cardinality(m.sets["Inputs"]) |->
                 LET i == SetToSeq(m.sets["Inputs"])[n]
                 IN  Term(Param("Cmatrix")[out, i], Var2("P", t, i))]
             \o << Term(1, Var2("Qout", t, out)), Term(-1, Var2("Qin", t, out)) >>, 0),
         "==",
         Lin(<< Term(1, Var2("P_export", t, out)) >>, Param("Loads")[t, out]))

(* Mutation: the input stream is bounded without its conversion factor. *)
Capacity_constraint_rule_NoCmatrix(t, disp, out) ==
    Expr(Lin(<< Term(1, Var2("P", t, disp)) >>, 0),
         "<=",
         Lin(<< Term(1, Var1("Capacity", disp)) >>, 0))

(* P[t,disp] * Cmatrix[out,disp] <= Capacity[disp] *)
Capacity_constraint_rule(t, disp, out) ==
    Expr(Lin(<< Term(Param("Cmatrix")[out, disp], Var2("P", t, disp)) >>, 0),
         "<=",
         Lin(<< Term(1, Var1("Capacity", disp)) >>, 0))

(* Mutation: solar input may be curtailed below the available radiation. *)
Solar_input_rule_Curtailed(t, sol, out) ==
    Expr(Lin(<< Term(1, Var2("P", t, sol)) >>, 0),
         "<=",
         Lin(<< Term(Param("P_solar")[t, sol], Var1("Capacity", sol)) >>, 0))

(* P[t,sol] == P_solar[t,sol] * Capacity[sol] *)
Solar_input_rule(t, sol, out) ==
    Expr(Lin(<< Term(1, Var2("P", t, sol)) >>, 0),
         "==",
         Lin(<< Term(Param("P_solar")[t, sol], Var1("Capacity", sol)) >>, 0))

(* The comparison Capacity[inp] <= BigM * y[inp] is evaluated and dropped:
   the rule has no return statement and yields None. *)
Fixed_cost_constr_rule(inp_) == [ret |-> None]

(* pe.Constraint(index, rule): the rows for a family of rule results, each a
   pair <<index, result>>.  A rule that returns None makes the constructor
   raise. *)
RuleReturnedNone(results) == \E r \in results : r[2].ret = None

Rows(name, results) ==
    { [name |-> name, index |-> r[1], lhs |-> r[2].lhs, rel |-> r[2].rel, rhs |-> r[2].rhs]
        : r \in results }

---------------------------------------------------------------------------
(* Assignments of the decision variables of m. *)

InDomains(a) == \A k \in DOMAIN m.vars : a[k] \in DomainValues(m.vars[k])

Feasible(a) == InDomains(a) /\ \A row \in m.cons : Satisfies(a, row)

(* Every variable at its lower bound. *)
Zero == [k \in DOMAIN m.vars |-> 0]

KeysOf(names) == { k \in DOMAIN m.vars : k[1] \in names }

Override(base, x) == [k \in DOMAIN m.vars |-> IF k \in DOMAIN x THEN x[k] ELSE base[k]]

(* The variable components by the role they play in the hub. *)
DispatchVars == {"P", "P_export", "Capacity", "Qin", "Qout"}
InstallVars == {"y", "y_stor"}
StorageVars == {"E", "Storage_cap"}
ObjectiveVars ==
    {"Operating_cost", "Income_via_exports", "investment_cost", "Total_cost", "Total_carbon"}

(* A feasible dispatch with every other variable at its lower bound. *)
BaseDispatch ==
    Override(Zero, CHOOSE x \in [KeysOf(DispatchVars) -> 0..MaxVal] : Feasible(Override(Zero, x)))

---------------------------------------------------------------------------
(* State after __init__ has imported the data and stored num_of_pfp, and
   createModel has created the empty ConcreteModel (lines 19-21, 29). *)

EmptyModel ==
    [ sets     |-> [n \in {} |-> {}],
      params   |-> {},
      defaults |-> [n \in {} |-> 0],
      vars     |-> [k \in {} |-> ""],
      cons     |-> {} ]

Init ==
    /\ \E s \in DataShapes :
       \E S \in SUBSET {"pv"}, D \in SUBSET {"grid"}, C \in SUBSET {"grid"} :
            inp = InputData(s[1], s[2], s[3], S, D, C)
    /\ num_of_pfp = NumOfParetoPoints
    /\ m = EmptyModel
    /\ pc = "sets"
    /\ err = None
    /\ cand = [k \in {} |-> 0]

(* Lines 33-40: the sets are declared in order; the first declaration whose
   data is not within its superset raises and ends the construction. *)
DeclareSets ==
    /\ pc = "sets"
    /\ LET f == FirstRejected IN
       IF f = 0
       THEN /\ m' = [m EXCEPT !.sets = [n \in DeclaredSets(Len(SetDecls)) |-> inp[n]]]
            /\ pc' = "params"
            /\ err' = err
       ELSE /\ m' = [m EXCEPT !.sets = [n \in DeclaredSets(f - 1) |-> inp[n]]]
            /\ pc' = "error"
            /\ err' = SetDecls[f].name
    /\ UNCHANGED <<inp, num_of_pfp, cand>>

(* Lines 48-88. *)
DeclareParams ==
    /\ pc = "params"
    /\ m' = [m EXCEPT !.params = InitialisedParams \cup ValuelessParams \cup {"BigM"},
                      !.defaults = [n \in {"BigM"} |-> BigMDefault]]
    /\ pc' = "vars"
    /\ UNCHANGED <<inp, num_of_pfp, err, cand>>

(* Lines 96-115. *)
DeclareVars ==
    /\ pc = "vars"
    /\ m' = [m EXCEPT !.vars = [k \in AllVarKeys |-> VarDecls[DeclOf(k)].within]]
    /\ pc' = "Load_balance"
    /\ UNCHANGED <<inp, num_of_pfp, err, cand>>

(* self.m.<name> = pe.Constraint(<index sets>, rule = <rule>) *)
Construct(name, results, next) ==
    /\ pc = name
    /\ IF RuleReturnedNone(results)
       THEN /\ pc' = "error"
            /\ err' = name
            /\ m' = m
       ELSE /\ pc' = next
            /\ err' = err
            /\ m' = [m EXCEPT !.cons = @ \cup Rows(name, results)]
    /\ UNCHANGED <<inp, num_of_pfp, cand>>

(* Line 124. *)
ConstructLoadBalance ==
    Construct("Load_balance",
              { << <<t, out>>, Load_balance_rule(t, out) >> :
                  t \in m.sets["Time"], out \in m.sets["Outputs"] },
              "Capacity_constraint")

(* Line 128. *)
ConstructCapacityConstraint ==
    Construct("Capacity_constraint",
              { << <<t, disp, out>>, Capacity_constraint_rule(t, disp, out) >> :
                  t \in m.sets["Time"], disp \in m.sets["Dispatchable_Tech"],
                  out \in m.sets["Outputs"] },
              "Solar_input")

(* Line 132. *)
ConstructSolarInput ==
    Construct("Solar_input",
              { << <<t, sol, out>>, Solar_input_rule(t, sol, out) >> :
                  t \in m.sets["Time"], sol \in m.sets["Solar_inputs"],
                  out \in m.sets["Outputs"] },
              "Fixed_cost_constr")

(* Line 136. *)
ConstructFixedCostConstr ==
    Construct("Fixed_cost_constr",
              { << <<i>>, Fixed_cost_constr_rule(i) >> : i \in m.sets["Inputs"] },
              "built")

(* Lines 141-149: the body of solve is a docstring and comments. *)
Solve ==
    /\ pc = "built"
    /\ pc' = "solved"
    /\ UNCHANGED <<inp, num_of_pfp, m, err, cand>>

---------------------------------------------------------------------------
(* The assignments the model admits once its construction has ended, taken
   one variable block at a time. *)

Probeable ==
    /\ pc \in {"built", "solved", "error"}
    /\ DOMAIN m.vars # {}
    /\ DOMAIN cand = {}

Probe(names, base) ==
    /\ Probeable
    /\ \E x \in [KeysOf(names) -> 0..MaxVal] :
          LET a == Override(base, x) IN Feasible(a) /\ cand' = a
    /\ UNCHANGED <<inp, num_of_pfp, m, pc, err>>

ProbeDispatch == Probe(DispatchVars, Zero)

ProbeInstallation == Probe(InstallVars, BaseDispatch)

ProbeStorage == Probe(StorageVars, BaseDispatch)

ProbeObjective == Probe(ObjectiveVars, BaseDispatch)

Next ==
    \/ DeclareSets
    \/ DeclareParams
    \/ DeclareVars
    \/ ConstructLoadBalance
    \/ ConstructCapacityConstraint
    \/ ConstructSolarInput
    \/ ConstructFixedCostConstr
    \/ Solve
    \/ ProbeDispatch
    \/ ProbeInstallation
    \/ ProbeStorage
    \/ ProbeObjective

Spec == Init /\ [][Next]_vars

---------------------------------------------------------------------------
(* Properties. *)

RECURSIVE SumFn(_)
SumFn(f) ==
    IF DOMAIN f = {} THEN 0
    ELSE LET x == CHOOSE x \in DOMAIN f : TRUE
         IN  f[x] + SumFn([z \in (DOMAIN f) \ {x} |-> f[z]])

(* a to the power b. *)
RECURSIVE Pow(_, _)
Pow(a, b) == IF b = 0 THEN 1 ELSE a * Pow(a, b - 1)

(* The construction has ended with the variables declared and cand is a
   feasible assignment of the model as it then stands. *)
Probed == DOMAIN cand # {}

TimeSet == m.sets["Time"]
InputSet == m.sets["Inputs"]
OutputSet == m.sets["Outputs"]

(* C1: Big-M linking.  For every carrier, every feasible assignment has
   Capacity[inp] > 0 implies y[inp] = 1 and y[inp] = 0 implies
   Capacity[inp] = 0 (the effect of a row Capacity[inp] <= BigM * y[inp]). *)
C1_BigMLinking ==
    Probed =>
        \A i \in InputSet :
            /\ cand[Var1("Capacity", i)] > 0 => cand[Var1("y", i)] = 1
            /\ cand[Var1("y", i)] = 0 => cand[Var1("Capacity", i)] = 0

(* C2: load balance.  In every feasible assignment, for every time step and
   every service, converted inputs plus storage discharge minus storage
   charge equal the load plus the export, exactly. *)
C2_LoadBalance ==
    Probed =>
        \A t \in TimeSet, s \in OutputSet :
            SumFn([i \in InputSet |-> cand[Var2("P", t, i)] * inp.Cmatrix[s, i]])
              + cand[Var2("Qout", t, s)] - cand[Var2("Qin", t, s)]
            = inp.Loads[t, s] + cand[Var2("P_export", t, s)]

(* A feasible assignment in which a carrier is used, storage is charged and
   discharged and energy is exported in the same time step. *)
C2_Witness ==
    /\ Probed
    /\ \E t \in TimeSet, s \in OutputSet, i \in InputSet :
          /\ cand[Var2("P", t, i)] > 0
          /\ cand[Var2("Qin", t, s)] > 0
          /\ cand[Var2("Qout", t, s)] > 0
          /\ cand[Var2("P_export", t, s)] > 0

(* The emission factor of a carrier as the data provider states it; the model
   m holds no value for Carbon_factors. *)
StatedCarbonFactor(i) == IF i = "grid" THEN 1 ELSE 0

(* C3: objective accounting.  In every feasible assignment Total_cost is
   investment_cost + Operating_cost - Income_via_exports and Total_carbon is
   the sum over time steps and carriers of
   Number_of_days[t] * Carbon_factors[inp] * P[t,inp]. *)
C3_ObjectiveAccounting ==
    Probed =>
        /\ cand[Var0("Total_cost")]
             = cand[Var0("investment_cost")] + cand[Var0("Operating_cost")]
                 - cand[Var0("Income_via_exports")]
        /\ cand[Var0("Total_carbon")]
             = SumFn([x \in TimeSet \X InputSet |->
                        inp.Number_of_days[x[1]] * StatedCarbonFactor(x[2])
                          * cand[Var2("P", x[1], x[2])]])

(* C4: storage bounds.  In every feasible assignment, for every time step and
   service, 0 <= E[t,s] <= Storage_cap[s] <= Storage_max_cap[s]. *)
C4_StorageBounds ==
    Probed =>
        \A t \in TimeSet, s \in OutputSet :
            /\ 0 <= cand[Var2("E", t, s)]
            /\ cand[Var2("E", t, s)] <= cand[Var1("Storage_cap", s)]
            /\ cand[Var1("Storage_cap", s)] <= inp.Storage_max_cap[s]

(* The sets the data provider supplies that are not within Inputs. *)
Offending ==
    { n \in {"Solar_inputs", "Dispatchable_Tech", "CHP_Tech"} :
        ~ (inp[n] \subseteq inp.Inputs) }

(* C6: validation before construction.  Once the sets have been processed, a
   data set whose Solar_inputs, Dispatchable_Tech or CHP_Tech is not within
   Inputs has ended the construction with an error naming an offending set,
   with no decision variable and no constraint created and no solve. *)
C6_ValidationBeforeConstruction ==
    (pc # "sets" /\ Offending # {}) =>
        /\ pc = "error"
        /\ err \in Offending
        /\ DOMAIN m.vars = {}
        /\ m.cons = {}
        /\ ~ Probed

(* The construction was stopped by CHP_Tech alone. *)
C6_Witness ==
    /\ pc = "error"
    /\ err = "CHP_Tech"
    /\ Offending = {"CHP_Tech"}
    /\ inp.Inputs # {}

(* C7: capacity linking.  In every feasible assignment, for every time step,
   dispatchable carrier and service,
   P[t,disp] * Cmatrix[s,disp] <= Capacity[disp]. *)
C7_CapacityLinking ==
    Probed =>
        \A t \in TimeSet, d \in m.sets["Dispatchable_Tech"], s \in OutputSet :
            cand[Var2("P", t, d)] * inp.Cmatrix[s, d] <= cand[Var1("Capacity", d)]

(* A feasible assignment that runs a dispatchable carrier. *)
C7_Witness ==
    /\ Probed
    /\ \E t \in TimeSet, d \in m.sets["Dispatchable_Tech"] :
          /\ cand[Var2("P", t, d)] > 0
          /\ \E s \in OutputSet : inp.Cmatrix[s, d] > 1

(* C8: solar generation.  In every feasible assignment, for every time step
   and solar carrier, P[t,sol] = P_solar[t,sol] * Capacity[sol]. *)
C8_SolarGeneration ==
    Probed =>
        \A t \in TimeSet, sol \in m.sets["Solar_inputs"] :
            cand[Var2("P", t, sol)] = inp.P_solar[t, sol] * cand[Var1("Capacity", sol)]

(* A feasible assignment with a solar carrier installed. *)
C8_Witness ==
    /\ Probed
    /\ \E t \in TimeSet, sol \in m.sets["Solar_inputs"] :
          /\ cand[Var1("Capacity", sol)] > 0
          /\ inp.P_solar[t, sol] > 1

(* C9: the default of BigM.  Once the parameters are declared, BigM is
   10 to the power 5. *)
C9_BigMDefault ==
    ("BigM" \in m.params) => Param("BigM") = Pow(10, 5)

(* C10: installation flags.  In every assignment the variable domains admit,
   y[inp] and y_stor[s] are 0 or 1 and every other variable is
   non-negative. *)
C10_BinaryFlags ==
    Probed =>
        \A k \in DOMAIN cand :
            IF k[1] \in {"y", "y_stor"} THEN cand[k] \in {0, 1} ELSE cand[k] >= 0

====
